---- MODULE Spec2Model ----
(***************************************************************************)
(* The multi-round tool-augmented chat orchestrator of                     *)
(* app/tools/exa_search.ts (createChatStream, executeToolConcurrently,     *)
(* generateFollowupMessages, createChatParams, saveMessage) as a state     *)
(* machine.  One turn of createChatStream is modelled: the coordinating    *)
(* task (request, stream consumption, join, composition) and the           *)
(* concurrent tool invocations of a round, which interleave at their       *)
(* await points.                                                           *)
(*                                                                         *)
(* Strings are TLA+ strings (concatenated with \o) for tool names,         *)
(* argument texts, prompts and results; the assistant text is a sequence   *)
(* of one-character strings so that String.prototype.trim can be computed. *)
(***************************************************************************)
EXTENDS Integers, Sequences, FiniteSets, TLC

\* const MAX_TOOL_CALL_ROUNDS = parseInt(process.env.MAX_TOOL_CALL_ROUNDS || '3')
MAX_TOOL_CALL_ROUNDS == 3

\* Bounds of the environment (the model stream), per turn.
MaxDeltas == 3       \* text deltas and tool-call deltas that carry data
MaxFaults == 1       \* table operations, tool executors, model calls that fail
MaxRequests == 4     \* the request counter saturates here
LivenessDeltas == 1  \* MaxDeltas of the specification with fairness

\* Positional slots the model may use for parallel calls.
Indices == {0, 1}

\* An arguments text, whole and split in two as the wire may split it.
FullArgs == "{\"query\":\"x\"}"
ArgsHead == "{\"que"
ArgsTail == "ry\":\"x\"}"
\* One-character text deltas.
TextParts == {<<"a">>, <<" ">>}

\* The call id the model assigns to the call at a slot.
CallId(index) == "call_" \o ToString(index)

\* request.sessionId: absent (undefined) or a session.
NoSession == ""
SessionIds == {NoSession, "s1"}

\* request.messages of the turn.
RequestMessages ==
  { << [role |-> "user", content |-> "p"],
       [role |-> "tool_call", content |-> "Calling exa_search"],
       [role |-> "assistant", content |-> "a"],
       [role |-> "user", content |-> "q"] >> }

-----------------------------------------------------------------------------
(* Sequences *)

\* Array.prototype.join on strings
RECURSIVE JoinStrings(_, _)
JoinStrings(s, sep) ==
  IF s = <<>> THEN ""
  ELSE IF Len(s) = 1 THEN s[1]
  ELSE s[1] \o sep \o JoinStrings(Tail(s), sep)

\* The members of a set of integers in increasing order.
RECURSIVE SortedSeq(_)
SortedSeq(S) ==
  IF S = {} THEN <<>>
  ELSE LET m == CHOOSE x \in S : \A y \in S : x <= y
       IN <<m>> \o SortedSeq(S \ {m})

IsWhitespace(c) == c \in {" ", "\n", "\t", "\r"}

RECURSIVE TrimStart(_)
TrimStart(s) ==
  IF s # <<>> /\ IsWhitespace(Head(s)) THEN TrimStart(Tail(s)) ELSE s

RECURSIVE TrimEnd(_)
TrimEnd(s) ==
  IF s # <<>> /\ IsWhitespace(s[Len(s)]) THEN TrimEnd(SubSeq(s, 1, Len(s) - 1)) ELSE s

\* String.prototype.trim
Trim(s) == TrimEnd(TrimStart(s))

-----------------------------------------------------------------------------
(* JSON.parse on the argument texts the stream can assemble.  Of all the    *)
(* concatenations of FullArgs, ArgsHead and ArgsTail only {"query":"x"} is  *)
(* a JSON text: every other one starts with r, leaves a string open, or has *)
(* text where the object or the property name has ended.                    *)

\* The argument texts the stream can assemble, as the sequences of heads and
\* tails they are made of (a whole call is a head and a tail).
ArgsParts == UNION {[1..n -> {ArgsHead, ArgsTail}] : n \in 1..(2 * MaxDeltas)}

\* The message of the SyntaxError JSON.parse throws on a text made of these
\* parts that is no JSON text.  A text that opens with the tail stops at its
\* first character, an unexpected token reported with the whole text when
\* that has fewer than 21 characters and with its first 10 otherwise; the
\* head alone is an unterminated string; a head after the head puts a
\* character where the colon is expected; anything after a whole object is
\* a character after the JSON text.
JSONParseMessage(parts) ==
  LET length == Len(SelectSeq(parts, LAMBDA part : part = ArgsHead)) * 5
                + Len(SelectSeq(parts, LAMBDA part : part = ArgsTail)) * 8
  IN IF parts[1] = ArgsTail
     THEN IF length < 21
          THEN "Unexpected token 'r', \"" \o JoinStrings(parts, "")
               \o "\" is not valid JSON"
          ELSE "Unexpected token 'r', \"" \o ArgsTail
               \o (IF parts[2] = ArgsHead THEN "{\"" ELSE "ry")
               \o "\"... is not valid JSON"
     ELSE IF Len(parts) = 1
     THEN "Unterminated string in JSON at position 5"
     ELSE IF parts[2] = ArgsHead
     THEN "Expected ':' after property name in JSON at position 7"
     ELSE "Unexpected non-whitespace character after JSON at position 13"

\* The texts that do not parse, each with the message of its SyntaxError;
\* the empty text ends before any token.
JSONParseErrors ==
  {<< JoinStrings(parts, ""), JSONParseMessage(parts) >> :
     parts \in ArgsParts \ {<< ArgsHead, ArgsTail >>}}
  \cup {<< "", "Unexpected end of JSON input" >>}

\* Mutant: a text that does not parse is read as an object without query.
JSONParseLenient(text) ==
  IF text = "{\"query\":\"x\"}"
  THEN [ok |-> TRUE, value |-> [query |-> "x"], error |-> ""]
  ELSE [ok |-> TRUE, value |-> [query |-> ""], error |-> ""]

\* JSON.parse(toolCall.function.arguments): the value, or the SyntaxError as
\* the template literal of line 135 prints it (name, colon, message).
JSONParse(text) ==
  IF text = "{\"query\":\"x\"}"
  THEN [ok |-> TRUE, value |-> [query |-> "x"], error |-> ""]
  ELSE [ok |-> FALSE, value |-> [query |-> ""],
        error |-> "SyntaxError: "
                  \o (CHOOSE e \in JSONParseErrors : e[1] = text)[2]]

-----------------------------------------------------------------------------
(* Tool registry (app/tools/index.ts, app/tools/exa_search.ts) *)

ExaSystemPrompt ==
  "Based on the search results provided, please provide a comprehensive response to the user's question. You MUST cite your sources by including the URLs and titles of the articles you reference. When mentioning information from the search results, always include the source URL in your response."

\* What ExaSearchTool.execute returns for a query with no hits, and what its
\* filterResult makes of it (searchType removed), both JSON.stringify(_, null, 2).
ExaRawResult == "{\n  \"query\": \"x\",\n  \"searchType\": \"auto\",\n  \"results\": []\n}"
ExaFilteredResult == "{\n  \"query\": \"x\",\n  \"results\": []\n}"

\* A result string that is no JSON text.
PlainResult == "plain text"

\* Mutant: the filter without its try/catch, JSON.parse(result) throws on a
\* result that is no JSON text.
ExaFilterResultUnguarded(result) ==
  IF result = ExaRawResult THEN [threw |-> FALSE, value |-> ExaFilteredResult]
  ELSE [threw |-> TRUE, value |-> result]

\* ExaSearchTool.followup.filterResult: inside try, parse, keep query and
\* the title/url/text of the results, stringify; in the catch, return the
\* result as it came.
ExaFilterResult(result) ==
  IF result = ExaRawResult THEN [threw |-> FALSE, value |-> ExaFilteredResult]
  ELSE [threw |-> FALSE, value |-> result]

ExaSearchTool ==
  [name |-> "exa_search",
   followup |-> [enabled |-> TRUE, systemPrompt |-> ExaSystemPrompt, filterResult |-> "exa"],
   result |-> ExaRawResult]

\* export const tools: Tool[] = [new ExaSearchTool()]
tools == << ExaSearchTool >>

\* The tools array the service imports in this deployment: the one with
\* ExaSearchTool, or, in the version of tools/index.ts that registers the
\* tool only when EXA_API_KEY is set, the empty one.
VARIABLE registry

Registries == {tools, <<>>}

\* export const toolMap = new Map(tools.map(tool => [tool.name, tool]))
toolMap == [n \in {registry[k].name : k \in DOMAIN registry} |->
              registry[CHOOSE k \in DOMAIN registry : registry[k].name = n]]

\* tool.followup.filterResult(result)
ApplyFilterResult(tool, result) ==
  IF tool.followup.filterResult = "exa" THEN ExaFilterResult(result)
  ELSE [threw |-> FALSE, value |-> result]

-----------------------------------------------------------------------------
(* Pure functions of the chat service *)

\* filterMessagesForLLM: keep user, assistant and system messages.
filterMessagesForLLM(messages) ==
  LET kept == SelectSeq(messages, LAMBDA msg : msg.role \in {"user", "assistant", "system"})
  IN [k \in DOMAIN kept |-> [role |-> kept[k].role, content |-> kept[k].content]]

GenericFollowupPrompt ==
  "You are a helpful assistant. Based on the tool results in the conversation, provide a comprehensive and helpful response to the user's question. Analyze and summarize the information clearly."

\* The tool-result entries of the branch with followup policies: each result
\* goes through its own filterResult when the tool has one; a filterResult
\* that throws ends the forEach and the function.
RECURSIVE FilteredEntries(_)
FilteredEntries(toolExecutions) ==
  IF toolExecutions = <<>> THEN [threw |-> FALSE, entries |-> <<>>]
  ELSE LET execution == Head(toolExecutions)
           filtered == IF execution.tool.followup.filterResult # "none"
                       THEN ApplyFilterResult(execution.tool, execution.result)
                       ELSE [threw |-> FALSE, value |-> execution.result]
           rest == FilteredEntries(Tail(toolExecutions))
       IN IF filtered.threw \/ rest.threw THEN [threw |-> TRUE, entries |-> <<>>]
          ELSE [threw |-> FALSE,
                entries |-> << [role |-> "assistant",
                                content |-> "Tool " \o execution.toolName
                                            \o " executed with result: "
                                            \o filtered.value \o "\n\n"] >>
                            \o rest.entries]

\* Mutant: the default branch filters the results as the other branch does.
PlainEntriesFiltered(toolExecutions) == FilteredEntries(toolExecutions).entries

\* The tool-result entries of the default branch: unfiltered.
PlainEntries(toolExecutions) ==
  [k \in DOMAIN toolExecutions |->
     [role |-> "assistant",
      content |-> "Tool " \o toolExecutions[k].toolName
                  \o " executed with result: " \o toolExecutions[k].result]]

\* Mutant: the prompts are joined without dropping the missing ones.
generateFollowupMessagesAllPrompts(toolExecutions, filteredMessages) ==
  LET toolsWithFollowup ==
        SelectSeq(toolExecutions, LAMBDA execution : execution.tool.followup.enabled)
      prompts == [k \in DOMAIN toolsWithFollowup |->
                    toolsWithFollowup[k].tool.followup.systemPrompt]
      systemPrompts == JoinStrings(prompts, "\n\n")
      combinedSystemPrompt ==
        IF systemPrompts # "" THEN systemPrompts ELSE GenericFollowupPrompt
      filtered == FilteredEntries(toolExecutions)
  IN IF Len(toolsWithFollowup) > 0
     THEN IF filtered.threw
          THEN [threw |-> TRUE, messages |-> <<>>]
          ELSE [threw |-> FALSE,
                messages |-> << [role |-> "system", content |-> combinedSystemPrompt] >>
                             \o filteredMessages \o filtered.entries]
     ELSE [threw |-> FALSE,
           messages |-> << [role |-> "system", content |-> GenericFollowupPrompt] >>
                        \o filteredMessages \o PlainEntries(toolExecutions)]

\* generateFollowupMessages(toolExecutions, filteredMessages): the next
\* round's message list, or threw when a filterResult throws.
generateFollowupMessages(toolExecutions, filteredMessages) ==
  LET toolsWithFollowup ==
        SelectSeq(toolExecutions, LAMBDA execution : execution.tool.followup.enabled)
      prompts == [k \in DOMAIN toolsWithFollowup |->
                    toolsWithFollowup[k].tool.followup.systemPrompt]
      systemPrompts == JoinStrings(SelectSeq(prompts, LAMBDA prompt : prompt # ""), "\n\n")
      combinedSystemPrompt ==
        IF systemPrompts # "" THEN systemPrompts ELSE GenericFollowupPrompt
      filtered == FilteredEntries(toolExecutions)
  IN IF Len(toolsWithFollowup) > 0
     THEN IF filtered.threw
          THEN [threw |-> TRUE, messages |-> <<>>]
          ELSE [threw |-> FALSE,
                messages |-> << [role |-> "system", content |-> combinedSystemPrompt] >>
                             \o filteredMessages \o filtered.entries]
     ELSE [threw |-> FALSE,
           messages |-> << [role |-> "system", content |-> GenericFollowupPrompt] >>
                        \o filteredMessages \o PlainEntries(toolExecutions)]

BaseSystemContent ==
  "You are a helpful assistant. When you use tools to gather information, you MUST always provide a comprehensive response based on the tool results. After calling tools and receiving results, you MUST analyze and summarize the information for the user in a clear and helpful way. Never end your response with just a tool call - always follow up with explanatory text."

ConcurrentToolsNote ==
  "\n\nIMPORTANT: You can call multiple tools simultaneously in a single response when needed. For example, you can perform multiple searches at once to gather comprehensive information from different sources or search for different aspects of a topic. Don't hesitate to use multiple tools when it would provide better, more complete answers."

\* Mutant: the last round is announced like the earlier ones.
FinalRoundNoteAsRemaining(currentRound) ==
  "\n\nNote: You have " \o ToString(MAX_TOOL_CALL_ROUNDS - currentRound)
  \o " more rounds of tool calls available if needed."

FinalRoundNote(currentRound) ==
  "\n\nIMPORTANT: This is your final opportunity to call tools (round "
  \o ToString(currentRound) \o "/" \o ToString(MAX_TOOL_CALL_ROUNDS)
  \o "). Please make all necessary tool calls now, as you won't have another chance after this response."

RemainingRoundsNote(currentRound) ==
  "\n\nNote: You have " \o ToString(MAX_TOOL_CALL_ROUNDS - currentRound)
  \o " more rounds of tool calls available if needed."

\* convertToolsToOpenAIFormat: the names of the tools offered.
convertToolsToOpenAIFormat == [k \in DOMAIN registry |-> registry[k].name]

\* createChatParams(model, messages, includeTools, currentRound)
createChatParams(messages, includeTools, currentRound) ==
  LET openaiTools == IF includeTools THEN convertToolsToOpenAIFormat ELSE <<>>
      withTools == includeTools /\ Len(openaiTools) > 0
      systemContent ==
        BaseSystemContent
        \o (IF withTools
            THEN ConcurrentToolsNote
                 \o (IF currentRound >= MAX_TOOL_CALL_ROUNDS
                     THEN FinalRoundNote(currentRound)
                     ELSE RemainingRoundsNote(currentRound))
            ELSE "")
      messagesWithoutSystem == SelectSeq(messages, LAMBDA msg : msg.role # "system")
  IN [messages |-> << [role |-> "system", content |-> systemContent] >>
                   \o messagesWithoutSystem,
      tools |-> IF withTools THEN openaiTools ELSE <<>>]

-----------------------------------------------------------------------------
(* State *)

VARIABLES
  sessionId,            \* request.sessionId
  sessionExists,        \* the ChatSession row of sessionId is in the database
  pc,                   \* where the coordinating task is suspended
  currentRound,         \* let currentRound
  allAssistantContent,  \* let allAssistantContent
  currentMessages,      \* let currentMessages
  hasToolCalls,         \* let hasToolCalls (per round)
  toolCalls,            \* const toolCalls (per round): slot per index
  invocations,          \* the executeToolConcurrently call of each slot
  toolExecutions,       \* let toolExecutions: what this round's join yielded
  events,               \* what sendJSON has enqueued on the output stream
  closed,               \* controller.close() was called
  store,                \* the message table behind prisma.message
  lastRequest,          \* the parameters of the last model request
  nRequests,            \* model requests issued (saturating at MaxRequests)
  received,             \* tool-call deltas consumed in this round, in order
  roundStart,           \* Len(events) when this round's request was issued
  deltasLeft,           \* remaining budget of deltas that carry data (a chunk
                        \* takes one per tool-call entry, or one for its text)
  faultsLeft            \* remaining budget of failing operations

vars == << registry, sessionId, sessionExists, pc, currentRound, allAssistantContent, currentMessages,
           hasToolCalls, toolCalls, invocations, toolExecutions, events, closed,
           store, lastRequest, nRequests, received, roundStart, deltasLeft, faultsLeft >>

\* toolCalls[index] before the first delta for index arrives (an array hole).
EmptySlot == [present |-> FALSE, id |-> "", name |-> "", arguments |-> ""]

\* No executeToolConcurrently call for this slot.
IdleInvocation ==
  [st |-> "idle", toolName |-> "", savedMessageId |-> 0, result |-> ""]

NoRequest == [params |-> [messages |-> <<>>, tools |-> <<>>], round |-> 0]

Min(a, b) == IF a < b THEN a ELSE b

-----------------------------------------------------------------------------
(* Events written by sendJSON *)

TextChunkEvent(content) == [type |-> "text_chunk", content |-> content]
ErrorEvent(message) == [type |-> "error", message |-> message]
EndEvent == [type |-> "end"]

\* messageId 0 stands for undefined (no record was created).
ToolCallEvent(index, slot, toolArgs, savedMessageId) ==
  [type |-> "tool_call", name |-> slot.name, args |-> toolArgs, id |-> slot.id,
   index |-> index, messageId |-> savedMessageId]

ToolResultEvent(index, slot, result, savedMessageId) ==
  [type |-> "tool_result", name |-> slot.name, result |-> result, id |-> slot.id,
   index |-> index, messageId |-> savedMessageId]

\* What the rejected promises carry as error.message.
DbErrorMessage == "database unavailable"
ForeignKeyMessage == "FOREIGN KEY constraint failed"
RecordNotFoundMessage == "Record to update not found."
ToolErrorMessage == "search failed"
StreamErrorMessage == "connection error"

ToolNotFoundMessage(toolName) ==
  "Tool " \o toolName \o " not found. Available tools: "
  \o JoinStrings([k \in DOMAIN registry |-> registry[k].name], ", ")

-----------------------------------------------------------------------------
(* The message table *)

\* JSON.stringify of a result string: quoted, with quotes and newlines escaped.
JSONStringifyString(result) ==
  IF result = ExaRawResult
  THEN "\"{\\n  \\\"query\\\": \\\"x\\\",\\n  \\\"searchType\\\": \\\"auto\\\",\\n  \\\"results\\\": []\\n}\""
  ELSE "\"" \o result \o "\""

\* prisma.message.create: the record gets the next id of the table.
\* toolResult "" stands for null.
CreateRecord(table, sid, role, content, toolName) ==
  Append(table, [id |-> Len(table) + 1, sessionId |-> sid, role |-> role,
                 content |-> content, toolName |-> toolName, toolResult |-> ""])

\* Mutant: the update goes to the newest record of the table.
UpdateRecordNewest(table, id, content, toolResult) ==
  [k \in DOMAIN table |->
     IF k = Len(table)
     THEN [table[k] EXCEPT !.content = content, !.toolResult = toolResult]
     ELSE table[k]]

\* prisma.message.update({where: {id}, data: {content, toolResult}})
UpdateRecord(table, id, content, toolResult) ==
  [k \in DOMAIN table |->
     IF table[k].id = id
     THEN [table[k] EXCEPT !.content = content, !.toolResult = toolResult]
     ELSE table[k]]

\* saveMessage(sessionId, message): the create inside try/catch; a failure
\* (dbOk = FALSE) is logged and the table is left as it was.
saveMessage(table, sid, role, content, dbOk) ==
  IF dbOk THEN CreateRecord(table, sid, role, content, "") ELSE table

\* sessionId && allAssistantContent.trim()
WillSaveAssistant(sid, content) == sid # NoSession /\ Trim(content) # <<>>

\* Mutant: the accumulated text is saved as it is.
SaveAssistantUntrimmed(table, sid, content, dbOk) ==
  IF WillSaveAssistant(sid, content)
  THEN saveMessage(table, sid, "assistant", content, dbOk)
  ELSE table

\* if (sessionId && allAssistantContent.trim()) await saveMessage(...)
SaveAssistant(table, sid, content, dbOk) ==
  IF WillSaveAssistant(sid, content)
  THEN saveMessage(table, sid, "assistant", Trim(content), dbOk)
  ELSE table

-----------------------------------------------------------------------------
(* Stream multiplexer: merging one tool-call delta into its slot *)

\* A delta of delta.tool_calls: index, optional id, partial name and arguments.
\* The shapes the stream sends: a whole call in one delta, a call opened
\* with the head of its arguments, the tail of the arguments, a further part
\* of the name, an empty delta.  The id comes with the deltas that open a
\* call.
UpdateShapes ==
  { [id |-> "call", name |-> "exa_search", arguments |-> FullArgs],
    [id |-> "call", name |-> "exa_search", arguments |-> ArgsHead],
    [id |-> "", name |-> "_x", arguments |-> ""],
    [id |-> "", name |-> "", arguments |-> ArgsTail],
    [id |-> "", name |-> "", arguments |-> ""] }

\* The empty delta is sent for the first index only.
Updates ==
  { u \in { [index |-> i, id |-> sh.id, name |-> sh.name, arguments |-> sh.arguments] :
               i \in Indices, sh \in UpdateShapes } :
      u.index = 0 \/ u.name # "" \/ u.arguments # "" }

\* The id is sent as CallId(index) when the delta carries one.
WireId(u) == IF u.id = "" THEN "" ELSE CallId(u.index)

HasPayload(u) == u.id # "" \/ u.name # "" \/ u.arguments # ""

\* Mutant: the parts are assigned, not appended.
MergeUpdateAssign(slots, u) ==
  LET slot == IF ~slots[u.index].present
              THEN [present |-> TRUE, id |-> WireId(u), name |-> "", arguments |-> ""]
              ELSE slots[u.index]
  IN [slots EXCEPT ![u.index] =
        [slot EXCEPT !.name = IF u.name # "" THEN u.name ELSE @,
                     !.arguments = IF u.arguments # "" THEN u.arguments ELSE @]]

\* Lines 392-410: create the slot on first sight of the index, then append
\* the name part and the arguments part when they are non-empty.
MergeUpdate(slots, u) ==
  LET slot == IF ~slots[u.index].present
              THEN [present |-> TRUE, id |-> WireId(u), name |-> "", arguments |-> ""]
              ELSE slots[u.index]
  IN [slots EXCEPT ![u.index] =
        [slot EXCEPT !.name = IF u.name # "" THEN @ \o u.name ELSE @,
                     !.arguments = IF u.arguments # "" THEN @ \o u.arguments ELSE @]]

\* Mutant: the filter looks at the name only.
validToolCallsNamed(slots) ==
  SortedSeq({i \in Indices : slots[i].present /\ slots[i].name # ""})

\* Mutant: every slot of the array is started, unfiltered.
validToolCallsUnfiltered(slots) ==
  SortedSeq({i \in Indices : slots[i].present})

\* toolCalls.filter(toolCall => toolCall.function?.name && toolCall.function?.arguments),
\* as the indices kept, in array order.
validToolCalls(slots) ==
  SortedSeq({i \in Indices : slots[i].present /\ slots[i].name # ""
                             /\ slots[i].arguments # ""})

-----------------------------------------------------------------------------
(* executeToolConcurrently, cut at its await points.  Each piece maps the   *)
(* invocation record and the event queue to their new values.               *)

\* Mutant: a name that is not registered ends the call without an event.
AfterCreateSilentLookup(index, slot, savedMessageId, evs) ==
  LET toolArgs == JSONParse(slot.arguments).value
      called == Append(evs, ToolCallEvent(index, slot, toolArgs, savedMessageId))
  IN IF slot.name \notin DOMAIN toolMap
     THEN [inv |-> [st |-> "failed", toolName |-> slot.name,
                    savedMessageId |-> savedMessageId, result |-> ""],
           events |-> called]
     ELSE [inv |-> [st |-> "execute", toolName |-> slot.name,
                    savedMessageId |-> savedMessageId, result |-> ""],
           events |-> called]

\* Lines 159-181: send tool_call, look the tool up, start its executor.
AfterCreate(index, slot, savedMessageId, evs) ==
  LET toolArgs == JSONParse(slot.arguments).value
      called == Append(evs, ToolCallEvent(index, slot, toolArgs, savedMessageId))
  IN IF slot.name \notin DOMAIN toolMap
     THEN [inv |-> [st |-> "failed", toolName |-> slot.name,
                    savedMessageId |-> savedMessageId, result |-> ""],
           events |-> Append(called, ErrorEvent(ToolNotFoundMessage(slot.name)))]
     ELSE [inv |-> [st |-> "execute", toolName |-> slot.name,
                    savedMessageId |-> savedMessageId, result |-> ""],
           events |-> called]

\* Mutant: the tool_call record is created whether or not there is a session.
StartInvocationAlwaysCreates(index, slot, sid, evs) ==
  IF slot.name = "" \/ slot.arguments = ""
  THEN [inv |-> [IdleInvocation EXCEPT !.st = "failed", !.toolName = slot.name],
        events |-> evs]
  ELSE IF ~JSONParse(slot.arguments).ok
  THEN [inv |-> [IdleInvocation EXCEPT !.st = "failed", !.toolName = slot.name],
        events |-> Append(evs, ErrorEvent("Invalid tool arguments: "
                                          \o JSONParse(slot.arguments).error))]
  ELSE IF TRUE
  THEN [inv |-> [IdleInvocation EXCEPT !.st = "create", !.toolName = slot.name],
        events |-> evs]
  ELSE AfterCreate(index, slot, 0, evs)

\* Lines 122-157: the part that runs synchronously inside validToolCalls.map:
\* structure check, JSON.parse, then the create is awaited when there is a
\* session, else the call goes on to AfterCreate.
StartInvocation(index, slot, sid, evs) ==
  IF slot.name = "" \/ slot.arguments = ""
  THEN [inv |-> [IdleInvocation EXCEPT !.st = "failed", !.toolName = slot.name],
        events |-> evs]
  ELSE IF ~JSONParse(slot.arguments).ok
  THEN [inv |-> [IdleInvocation EXCEPT !.st = "failed", !.toolName = slot.name],
        events |-> Append(evs, ErrorEvent("Invalid tool arguments: "
                                          \o JSONParse(slot.arguments).error))]
  ELSE IF sid # NoSession
  THEN [inv |-> [IdleInvocation EXCEPT !.st = "create", !.toolName = slot.name],
        events |-> evs]
  ELSE AfterCreate(index, slot, 0, evs)

\* The catch of lines 213-218.
InvocationFailed(inv, message, evs) ==
  [inv |-> [inv EXCEPT !.st = "failed"],
   events |-> Append(evs, ErrorEvent("Tool execution failed: " \o message))]

\* Mutant: the tool_result event does not carry the id of the record.
SucceedWithoutMessageId(index, slot, inv, result, evs) ==
  [inv |-> [inv EXCEPT !.st = "ok", !.result = result],
   events |-> Append(evs, ToolResultEvent(index, slot, result, 0))]

\* Lines 196-212: send tool_result and return the ToolExecution.
Succeed(index, slot, inv, result, evs) ==
  [inv |-> [inv EXCEPT !.st = "ok", !.result = result],
   events |-> Append(evs, ToolResultEvent(index, slot, result, inv.savedMessageId))]

\* validToolCalls.map(toolCall => executeToolConcurrently(...)): the
\* synchronous parts run one after the other, in array order.
RECURSIVE StartAll(_, _, _, _, _)
StartAll(order, slots, sid, invs, evs) ==
  IF order = <<>> THEN [invocations |-> invs, events |-> evs]
  ELSE LET i == Head(order)
           r == StartInvocation(i, slots[i], sid, evs)
       IN StartAll(Tail(order), slots, sid, [invs EXCEPT ![i] = r.inv], r.events)

\* The ToolExecution an invocation resolved to.
ToolExecutionOf(index, slots, invs) ==
  [toolName |-> invs[index].toolName,
   toolArgs |-> JSONParse(slots[index].arguments).value,
   result |-> invs[index].result,
   tool |-> toolMap[invs[index].toolName],
   messageId |-> invs[index].savedMessageId]

\* Mutant: one failed invocation rejects the join and every result is lost.
JoinedExecutionsAllOrNothing(slots, invs) ==
  LET okIdx == IF \E i \in Indices : invs[i].st = "failed" THEN <<>>
               ELSE SortedSeq({i \in Indices : invs[i].st = "ok"})
  IN [k \in DOMAIN okIdx |-> ToolExecutionOf(okIdx[k], slots, invs)]

\* Mutant: the executions are collected from the highest index down.
JoinedExecutionsReversed(slots, invs) ==
  LET okIdx == SortedSeq({i \in Indices : invs[i].st = "ok"})
  IN [k \in DOMAIN okIdx |->
        ToolExecutionOf(okIdx[Len(okIdx) + 1 - k], slots, invs)]

\* results.filter(execution => execution !== null), in the order of the
\* promises, which is array order.
JoinedExecutions(slots, invs) ==
  LET okIdx == SortedSeq({i \in Indices : invs[i].st = "ok"})
  IN [k \in DOMAIN okIdx |-> ToolExecutionOf(okIdx[k], slots, invs)]

-----------------------------------------------------------------------------
(* The coordinating task: createChatStream's start(controller) *)

\* The outcomes of a message-table operation: "" when it succeeds, else the
\* message of the error it rejects with.  The connection to the database can
\* fail at any operation, within the budget of failures.  On a session that
\* was deleted the operation never succeeds: the database rejects it
\* (Message.sessionId references ChatSession, rows go with their session;
\* rejection is the message of that error), unless the connection failed
\* first.
DbSucceeded == ""
DbOutcomes(performed, rejection) ==
  IF ~performed THEN {DbSucceeded}
  ELSE (IF sessionExists THEN {DbSucceeded} ELSE {rejection})
       \cup (IF faultsLeft > 0 THEN {DbErrorMessage} ELSE {})

\* The outcomes of a tool executor (TRUE: it returns) and of the model stream
\* (TRUE: it delivers), within the budget of failures.
ToolOutcomes == IF faultsLeft > 0 THEN BOOLEAN ELSE {TRUE}
ModelOutcomes == IF faultsLeft > 0 THEN BOOLEAN ELSE {TRUE}
FaultsAfter(ok) == IF ok THEN faultsLeft ELSE faultsLeft - 1

\* A failure of the connection is taken from the budget, a rejection by
\* the database is not.
DbFaultsAfter(outcome) ==
  IF outcome = DbErrorMessage THEN faultsLeft - 1 ELSE faultsLeft

\* The state when start(controller) is entered, with the budgets of the
\* environment.
InitWith(deltas, faults) ==
  /\ registry \in Registries
  /\ sessionId \in SessionIds
  /\ sessionExists = (sessionId # NoSession)
  /\ currentMessages \in {filterMessagesForLLM(m) : m \in RequestMessages}
  /\ pc = "start"
  /\ currentRound = 1
  /\ allAssistantContent = <<>>
  /\ hasToolCalls = FALSE
  /\ toolCalls = [i \in Indices |-> EmptySlot]
  /\ invocations = [i \in Indices |-> IdleInvocation]
  /\ toolExecutions = <<>>
  /\ events = <<>>
  /\ closed = FALSE
  /\ store = <<>>
  /\ lastRequest = NoRequest
  /\ nRequests = 0
  /\ received = <<>>
  /\ roundStart = 0
  /\ deltasLeft = deltas
  /\ faultsLeft = faults

Init == InitWith(MaxDeltas, MaxFaults)

\* Mutant: the loop admits one round more.
LoopContinuesOneMore(round) == round <= MAX_TOOL_CALL_ROUNDS + 1

\* while (currentRound <= MAX_TOOL_CALL_ROUNDS)
LoopContinues(round) == round <= MAX_TOOL_CALL_ROUNDS

\* Mutant: the followup is composed whatever the join yielded.
HasSuccessfulExecutionsAlways(executions) == TRUE

\* if (toolExecutions.length > 0)
HasSuccessfulExecutions(executions) == Len(executions) > 0

\* sendJSON({type: 'end'}); controller.close()
EndTurn(evs) ==
  /\ events' = Append(evs, EndEvent)
  /\ closed' = TRUE
  /\ pc' = "done"

\* Mutant: the catch reports the error and closes without the end event.
CatchTurnNoEnd(evs, message) ==
  /\ events' = Append(evs, ErrorEvent(message))
  /\ closed' = TRUE
  /\ pc' = "done"

\* Lines 509-515: the catch of the whole turn.
CatchTurn(evs, message) ==
  /\ events' = Append(Append(evs, ErrorEvent(message)), EndEvent)
  /\ closed' = TRUE
  /\ pc' = "done"

\* Lines 356-368: save the user message when there is a session and the last
\* message is the user's, then enter the loop.
Start ==
  /\ pc = "start"
  /\ LET saves == /\ sessionId # NoSession
                  /\ Len(currentMessages) > 0
                  /\ currentMessages[Len(currentMessages)].role = "user"
     IN \E outcome \in DbOutcomes(saves, ForeignKeyMessage) :
          /\ store' = IF saves
                      THEN saveMessage(store, sessionId, "user",
                                       currentMessages[Len(currentMessages)].content,
                                       outcome = DbSucceeded)
                      ELSE store
          /\ faultsLeft' = DbFaultsAfter(outcome)
  /\ pc' = "request"
  /\ UNCHANGED << registry, sessionId, sessionExists, currentRound, allAssistantContent, currentMessages,
                  hasToolCalls, toolCalls, invocations, toolExecutions, events,
                  closed, lastRequest, nRequests, received, roundStart,
                  deltasLeft >>

\* Lines 371-379: one iteration of the while loop up to the first chunk:
\* build the parameters, call the model; the call may reject.
Request ==
  /\ pc = "request"
  /\ LET includeTools == currentRound <= MAX_TOOL_CALL_ROUNDS
     IN lastRequest' = [params |-> createChatParams(currentMessages, includeTools,
                                                    currentRound),
                        round |-> currentRound]
  /\ nRequests' = Min(nRequests + 1, MaxRequests)
  /\ hasToolCalls' = FALSE
  /\ toolCalls' = [i \in Indices |-> EmptySlot]
  /\ invocations' = [i \in Indices |-> IdleInvocation]
  /\ toolExecutions' = <<>>
  /\ received' = <<>>
  /\ roundStart' = Len(events)
  /\ \E modelOk \in ModelOutcomes :
       /\ faultsLeft' = FaultsAfter(modelOk)
       /\ IF modelOk
          THEN /\ pc' = "stream"
               /\ UNCHANGED << events, closed >>
          ELSE CatchTurn(events, StreamErrorMessage)
  /\ UNCHANGED << registry, sessionId, sessionExists, currentRound, allAssistantContent, currentMessages,
                  store, deltasLeft >>

\* The chunks the model stream can deliver: one tool-call delta or a text
\* delta, alone or together with the finish reason, or the finish reason
\* alone, or a chunk that carries text, a whole call at index 0 and the
\* finish reason tool_calls at once, or a chunk whose delta.tool_calls has
\* two entries (two whole calls, or the two parts of one call).
\* NoUpdate: delta.tool_calls is undefined.
NoUpdate == <<>>
FinishReasons == {"stop", "tool_calls"}
WholeCall(i) ==
  [index |-> i, id |-> "call", name |-> "exa_search", arguments |-> FullArgs]
UpdatePairs ==
  { << WholeCall(0), WholeCall(1) >>,
    << [index |-> 0, id |-> "call", name |-> "exa_search", arguments |-> ArgsHead],
       [index |-> 0, id |-> "", name |-> "", arguments |-> ArgsTail] >> }
Chunks ==
  {[tool_calls |-> <<u>>, content |-> <<>>, finish_reason |-> f] :
     u \in Updates, f \in {""} \cup FinishReasons}
  \cup {[tool_calls |-> NoUpdate, content |-> c, finish_reason |-> f] :
          c \in TextParts, f \in {""} \cup FinishReasons}
  \cup {[tool_calls |-> NoUpdate, content |-> <<>>, finish_reason |-> f] :
          f \in FinishReasons}
  \cup {[tool_calls |-> << WholeCall(0) >>,
         content |-> << "a" >>, finish_reason |-> "tool_calls"]}
  \cup {[tool_calls |-> us, content |-> <<>>, finish_reason |-> f] :
          us \in UpdatePairs, f \in {"", "tool_calls"}}

\* for (const toolCall of delta.tool_calls), lines 390-411.
RECURSIVE MergeUpdates(_, _)
MergeUpdates(slots, updates) ==
  IF updates = <<>> THEN slots
  ELSE MergeUpdates(MergeUpdate(slots, Head(updates)), Tail(updates))

\* Lines 466-473, 478-485 and 494-499 up to the await: the save of the
\* assistant message is started when there is a session and text; else the
\* turn ends at once.
SaveOrEnd(evs, content) ==
  IF WillSaveAssistant(sessionId, content)
  THEN /\ pc' = "save"
       /\ events' = evs
       /\ UNCHANGED closed
  ELSE EndTurn(evs)

\* for-await body, lines 383-490, for one chunk.
StreamChunk(chunk) ==
  /\ pc = "stream"
  /\ LET paid == SelectSeq(chunk.tool_calls, HasPayload)
         cost == IF paid # <<>> THEN Len(paid)
                 ELSE IF chunk.content # <<>> THEN 1 ELSE 0
         slots == MergeUpdates(toolCalls, chunk.tool_calls)
         hasCalls == hasToolCalls \/ chunk.tool_calls # NoUpdate
         content == allAssistantContent \o chunk.content
         evs == IF chunk.content # <<>>
                THEN Append(events, TextChunkEvent(chunk.content))
                ELSE events
     IN /\ cost <= deltasLeft
        /\ deltasLeft' = deltasLeft - cost
        /\ received' = received \o paid
        /\ toolCalls' = slots
        /\ hasToolCalls' = hasCalls
        /\ allAssistantContent' = content
        /\ IF chunk.finish_reason = ""
           THEN /\ events' = evs
                /\ UNCHANGED << pc, closed, invocations >>
           ELSE IF hasCalls /\ chunk.finish_reason = "tool_calls"
           THEN LET started == StartAll(validToolCalls(slots), slots, sessionId,
                                        invocations, evs)
                IN /\ invocations' = started.invocations
                   /\ events' = started.events
                   /\ pc' = "exec"
                   /\ UNCHANGED closed
           ELSE /\ SaveOrEnd(evs, content)
                /\ UNCHANGED invocations
  /\ UNCHANGED << registry, sessionId, sessionExists, currentRound, currentMessages, toolExecutions,
                  store, faultsLeft, lastRequest, nRequests, roundStart >>

\* The stream is exhausted without a finish reason: lines 493-503 and the
\* loop condition.
StreamEnds ==
  /\ pc = "stream"
  /\ IF ~hasToolCalls
     THEN SaveOrEnd(events, allAssistantContent)
     ELSE IF LoopContinues(currentRound)
     THEN /\ pc' = "request"
          /\ UNCHANGED << events, closed >>
     ELSE EndTurn(events)
  /\ UNCHANGED << registry, sessionId, sessionExists, currentRound, allAssistantContent, currentMessages,
                  hasToolCalls, toolCalls, invocations, toolExecutions, store,
                  faultsLeft, lastRequest, nRequests, received, roundStart,
                  deltasLeft >>

\* The awaited saveMessage of lines 468-471, 480-483 and 495-498 settles
\* (a failure is swallowed inside saveMessage); then end is sent and the
\* stream closed.
SaveSettles ==
  /\ pc = "save"
  /\ \E outcome \in DbOutcomes(TRUE, ForeignKeyMessage) :
       /\ store' = SaveAssistant(store, sessionId, allAssistantContent,
                                 outcome = DbSucceeded)
       /\ faultsLeft' = DbFaultsAfter(outcome)
  /\ EndTurn(events)
  /\ UNCHANGED << registry, sessionId, sessionExists, currentRound, allAssistantContent, currentMessages,
                  hasToolCalls, toolCalls, invocations, toolExecutions,
                  lastRequest, nRequests, received, roundStart, deltasLeft >>

\* Mutant: a failing stream is reported and the round is requested again.
StreamFailsRetries ==
  /\ pc = "stream"
  /\ FALSE \in ModelOutcomes
  /\ faultsLeft' = FaultsAfter(FALSE)
  /\ events' = Append(events, ErrorEvent(StreamErrorMessage))
  /\ pc' = "request"
  /\ UNCHANGED << registry, sessionId, sessionExists, currentRound, allAssistantContent, currentMessages,
                  hasToolCalls, toolCalls, invocations, toolExecutions, store, closed,
                  lastRequest, nRequests, received, roundStart, deltasLeft >>

\* The stream iterator rejects while a chunk is awaited.
StreamFails ==
  /\ pc = "stream"
  /\ FALSE \in ModelOutcomes
  /\ faultsLeft' = FaultsAfter(FALSE)
  /\ CatchTurn(events, StreamErrorMessage)
  /\ UNCHANGED << registry, sessionId, sessionExists, currentRound, allAssistantContent, currentMessages,
                  hasToolCalls, toolCalls, invocations, toolExecutions, store,
                  lastRequest, nRequests, received, roundStart, deltasLeft >>

-----------------------------------------------------------------------------
(* The concurrent invocations: one action per settled await *)

invUnchanged ==
  << registry, sessionId, sessionExists, pc, currentRound, allAssistantContent, currentMessages,
     hasToolCalls, toolCalls, toolExecutions, closed, lastRequest, nRequests,
     received, roundStart, deltasLeft >>

\* Lines 144-157 settle: the tool_call record is created, or the create
\* rejects and the catch of line 213 runs.
CreateSettles(i) ==
  /\ pc = "exec"
  /\ invocations[i].st = "create"
  /\ \E outcome \in DbOutcomes(TRUE, ForeignKeyMessage) :
       /\ faultsLeft' = DbFaultsAfter(outcome)
       /\ IF outcome = DbSucceeded
          THEN LET table == CreateRecord(store, sessionId, "tool_call",
                                         "Calling " \o toolCalls[i].name,
                                         toolCalls[i].name)
                   r == AfterCreate(i, toolCalls[i], table[Len(table)].id, events)
               IN /\ store' = table
                  /\ invocations' = [invocations EXCEPT ![i] = r.inv]
                  /\ events' = r.events
          ELSE LET r == InvocationFailed(invocations[i], outcome, events)
               IN /\ invocations' = [invocations EXCEPT ![i] = r.inv]
                  /\ events' = r.events
                  /\ UNCHANGED store
  /\ UNCHANGED invUnchanged

\* Line 181 settles: the executor returns its result, or throws.
ExecuteSettles(i) ==
  /\ pc = "exec"
  /\ invocations[i].st = "execute"
  /\ \E toolOk \in ToolOutcomes :
       LET inv == invocations[i]
           result == toolMap[inv.toolName].result
           r == IF ~toolOk
                THEN InvocationFailed(inv, ToolErrorMessage, events)
                ELSE IF sessionId # NoSession /\ inv.savedMessageId # 0
                THEN [inv |-> [inv EXCEPT !.st = "update", !.result = result],
                      events |-> events]
                ELSE Succeed(i, toolCalls[i], inv, result, events)
       IN /\ invocations' = [invocations EXCEPT ![i] = r.inv]
          /\ events' = r.events
          /\ faultsLeft' = FaultsAfter(toolOk)
  /\ UNCHANGED store
  /\ UNCHANGED invUnchanged

\* Lines 186-194 settle: the record is updated with the result, or the
\* update rejects and the catch of line 213 runs.
UpdateSettles(i) ==
  /\ pc = "exec"
  /\ invocations[i].st = "update"
  /\ \E outcome \in DbOutcomes(TRUE, RecordNotFoundMessage) :
       LET inv == invocations[i]
           r == IF outcome = DbSucceeded
                THEN Succeed(i, toolCalls[i], inv, inv.result, events)
                ELSE InvocationFailed([inv EXCEPT !.result = ""], outcome, events)
       IN /\ invocations' = [invocations EXCEPT ![i] = r.inv]
          /\ events' = r.events
          /\ store' = IF outcome = DbSucceeded
                      THEN UpdateRecord(store, inv.savedMessageId,
                                        "Tool " \o inv.toolName \o " executed",
                                        JSONStringifyString(inv.result))
                      ELSE store
          /\ faultsLeft' = DbFaultsAfter(outcome)
  /\ UNCHANGED invUnchanged

\* Another request of the server, while the turn is suspended at an await
\* or after it: DELETE /api/sessions/:sessionId, the route's action.  The
\* session row is deleted and its messages go with it (ON DELETE CASCADE).
DeleteSession ==
  /\ sessionId # NoSession
  /\ sessionExists
  /\ sessionExists' = FALSE
  /\ store' = SelectSeq(store, LAMBDA record : record.sessionId # sessionId)
  /\ UNCHANGED << registry, sessionId, pc, currentRound, allAssistantContent,
                  currentMessages, hasToolCalls, toolCalls, invocations,
                  toolExecutions, events, closed, lastRequest, nRequests, received,
                  roundStart, deltasLeft, faultsLeft >>

\* Mutant: the join does not wait for the update of the record.
SettledBeforeUpdate(inv) == inv.st \in {"idle", "ok", "failed", "update"}

\* The promise of the invocation has settled (or there is no invocation).
Settled(inv) == inv.st \in {"idle", "ok", "failed"}

\* What generateFollowupMessages throws with when a filterResult throws:
\* the error of JSON.parse on PlainResult.
FilterErrorMessage == "Unexpected token 'p', \"plain text\" is not valid JSON"

\* Lines 449-477 and the loop condition: Promise.all resolves once every
\* invocation has settled; compose the followup and go on to the next
\* request, or end the turn.
Join ==
  /\ pc = "exec"
  /\ \A i \in Indices : Settled(invocations[i])
  /\ LET executions == JoinedExecutions(toolCalls, invocations)
         followup == generateFollowupMessages(executions, currentMessages)
     IN /\ toolExecutions' = executions
        /\ IF HasSuccessfulExecutions(executions)
           THEN IF followup.threw
                THEN /\ CatchTurn(events, FilterErrorMessage)
                     /\ UNCHANGED << currentMessages, currentRound >>
                ELSE /\ currentMessages' = followup.messages
                     /\ currentRound' = currentRound + 1
                     /\ IF LoopContinues(currentRound + 1)
                        THEN /\ pc' = "request"
                             /\ UNCHANGED << events, closed >>
                        ELSE EndTurn(events)
           ELSE /\ SaveOrEnd(events, allAssistantContent)
                /\ UNCHANGED << currentMessages, currentRound >>
  /\ UNCHANGED << registry, sessionId, sessionExists, allAssistantContent, hasToolCalls, toolCalls,
                  invocations, store, faultsLeft, lastRequest, nRequests, received,
                  roundStart, deltasLeft >>

-----------------------------------------------------------------------------
(* Specifications *)

Next ==
  \/ Start
  \/ Request
  \/ \E chunk \in Chunks : StreamChunk(chunk)
  \/ StreamEnds
  \/ StreamFails
  \/ SaveSettles
  \/ \E i \in Indices : CreateSettles(i)
  \/ \E i \in Indices : ExecuteSettles(i)
  \/ \E i \in Indices : UpdateSettles(i)
  \/ Join
  \/ DeleteSession

Spec == Init /\ [][Next]_vars

\* The turn over model streams that all deliver a chunk with a finish reason:
\* the for-await loop is always left from inside its body or by a throw.
FinishedStreamsNext ==
  \/ Start
  \/ Request
  \/ \E chunk \in Chunks : StreamChunk(chunk)
  \/ StreamFails
  \/ SaveSettles
  \/ \E i \in Indices : CreateSettles(i)
  \/ \E i \in Indices : ExecuteSettles(i)
  \/ \E i \in Indices : UpdateSettles(i)
  \/ Join
  \/ DeleteSession

FinishedStreamsSpec == Init /\ [][FinishedStreamsNext]_vars

\* The event loop runs every continuation that is ready, the model stream is
\* finite and every awaited promise settles.
FairInit == InitWith(LivenessDeltas, MaxFaults)

FairSpec ==
  /\ FairInit /\ [][Next]_vars
  /\ WF_vars(Start)
  /\ WF_vars(Request)
  /\ WF_vars(\E chunk \in Chunks : StreamChunk(chunk))
  /\ WF_vars(StreamEnds)
  /\ WF_vars(SaveSettles)
  /\ \A i \in Indices : WF_vars(CreateSettles(i))
  /\ \A i \in Indices : WF_vars(ExecuteSettles(i))
  /\ \A i \in Indices : WF_vars(UpdateSettles(i))
  /\ WF_vars(Join)

-----------------------------------------------------------------------------
(* generateFollowupMessages on its own *)

\* Implementations of the Tool interface as the composer sees them: followup
\* enabled or not (an absent followup reads as not enabled, no systemPrompt,
\* no filterResult), with or without systemPrompt, with or without
\* filterResult.
ComposerTools ==
  { ExaSearchTool,
    [name |-> "lookup",
     followup |-> [enabled |-> TRUE, systemPrompt |-> "", filterResult |-> "none"],
     result |-> PlainResult],
    [name |-> "notes",
     followup |-> [enabled |-> TRUE, systemPrompt |-> "Quote the notes.",
                   filterResult |-> "none"],
     result |-> PlainResult],
    [name |-> "archive",
     followup |-> [enabled |-> FALSE, systemPrompt |-> "Cite the archive.",
                   filterResult |-> "exa"],
     result |-> ExaRawResult],
    [name |-> "clock",
     followup |-> [enabled |-> FALSE, systemPrompt |-> "", filterResult |-> "none"],
     result |-> PlainResult] }

\* The ToolExecution values handed to the composer.
ComposerExecutions ==
  { [toolName |-> t.name, toolArgs |-> [query |-> "x"], result |-> r, tool |-> t,
     messageId |-> 0] : t \in ComposerTools, r \in {ExaRawResult, PlainResult} }

\* The lists of one or two executions.
ComposerInputs ==
  { << e >> : e \in ComposerExecutions }
  \cup { << e1, e2 >> : e1 \in ComposerExecutions, e2 \in ComposerExecutions }

\* The message histories handed to the composer.
ComposerHistories ==
  { << [role |-> "user", content |-> "q"] >>,
    << [role |-> "system", content |-> "s"], [role |-> "user", content |-> "q"],
       [role |-> "assistant", content |-> "a"] >> }

\* The registry behind a list of executions: an execution exists only for
\* a tool that toolMap holds (lines 172-178), and toolMap is built from
\* tools; so the registry is ExaSearchTool and the other tools that were
\* executed, each once.
RECURSIVE RegistryOf(_, _)
RegistryOf(registered, executions) ==
  IF executions = <<>> THEN registered
  ELSE LET tool == Head(executions).tool
       IN RegistryOf(IF \E k \in DOMAIN registered : registered[k].name = tool.name
                     THEN registered
                     ELSE Append(registered, tool),
                     Tail(executions))

ComposerInit ==
  /\ toolExecutions \in ComposerInputs
  /\ registry = RegistryOf(tools, toolExecutions)
  /\ sessionId = NoSession
  /\ sessionExists = FALSE
  /\ currentMessages \in ComposerHistories
  /\ pc = "compose"
  /\ currentRound \in 1..MAX_TOOL_CALL_ROUNDS
  /\ allAssistantContent = <<>>
  /\ hasToolCalls = FALSE
  /\ toolCalls = [i \in Indices |-> EmptySlot]
  /\ invocations = [i \in Indices |-> IdleInvocation]
  /\ events = <<>>
  /\ closed = FALSE
  /\ store = <<>>
  /\ lastRequest = NoRequest
  /\ nRequests = 0
  /\ received = <<>>
  /\ roundStart = 0
  /\ deltasLeft = 0
  /\ faultsLeft = 0

\* Lines 458-465 and the loop condition, for the executions handed over:
\* const followupMessages = generateFollowupMessages(toolExecutions,
\* currentMessages); currentMessages = followupMessages; currentRound++;
\* break.  A throw of the composer goes to the catch of lines 509-515.
Compose ==
  /\ pc = "compose"
  /\ LET followup == generateFollowupMessages(toolExecutions, currentMessages)
     IN IF followup.threw
        THEN /\ CatchTurn(events, FilterErrorMessage)
             /\ UNCHANGED << currentMessages, currentRound >>
        ELSE /\ currentMessages' = followup.messages
             /\ currentRound' = currentRound + 1
             /\ IF LoopContinues(currentRound + 1)
                THEN /\ pc' = "request"
                     /\ UNCHANGED << events, closed >>
                ELSE EndTurn(events)
  /\ UNCHANGED << registry, sessionId, sessionExists, allAssistantContent, hasToolCalls,
                  toolCalls, invocations, toolExecutions, store,
                  lastRequest, nRequests, received, roundStart, deltasLeft,
                  faultsLeft >>

\* The composition and the request of the round it prepared.
ComposerNext ==
  \/ Compose
  \/ Request

ComposerSpec == ComposerInit /\ [][ComposerNext]_vars

-----------------------------------------------------------------------------
(* Properties *)

\* The positions of the events of a type.
EventsOfType(type) == {k \in DOMAIN events : events[k].type = type}

\* The positions of this round's events of a type.
RoundEventsOfType(type) == {k \in EventsOfType(type) : k > roundStart}

IndicesIn(st) == {i \in Indices : invocations[i].st = st}

\* C1: once the output stream is closed, exactly one end event has been
\* emitted and it is the last event; before that, none has been; the stream
\* is closed exactly when the coordinating task is done.
C1_ExactlyOneEndLast ==
  /\ closed <=> pc = "done"
  /\ closed => /\ Cardinality(EventsOfType("end")) = 1
               /\ events[Len(events)].type = "end"
  /\ ~closed => EventsOfType("end") = {}

\* C1 witness: a turn closed by the catch after a round of tool calls, an
\* error event right before the end event.
C1_Witness ==
  /\ closed
  /\ currentRound = 2
  /\ Len(events) >= 2
  /\ events[Len(events) - 1].type = "error"
  /\ events[Len(events) - 1].message = StreamErrorMessage

\* C2: every turn eventually emits end and closes, whatever finite streams
\* the model sends.
C2_EventuallyEnds == <>closed

\* C3: a turn that ends with the round counter beyond the maximum has issued
\* a last request for that round in which no tools were offered.
C3_FinalRequestWithoutTools ==
  (closed /\ currentRound > MAX_TOOL_CALL_ROUNDS)
    => /\ lastRequest.round = currentRound
       /\ lastRequest.params.tools = <<>>

\* C4 as stated: the round counter never exceeds the maximum.
C4_RoundCounterAtMostMax == currentRound <= MAX_TOOL_CALL_ROUNDS

\* C4 amended: the round counter is between 1 and the maximum plus one, and
\* it is beyond the maximum only once the turn has ended; every request was
\* issued with a counter within the maximum.
C4_RoundCounterBound ==
  /\ currentRound \in 1 .. MAX_TOOL_CALL_ROUNDS + 1
  /\ currentRound > MAX_TOOL_CALL_ROUNDS => closed
  /\ lastRequest.round <= MAX_TOOL_CALL_ROUNDS

\* C4 witness: the turn ended after the maximum number of rounds, each with
\* a successful invocation.
C4_Witness ==
  /\ closed
  /\ currentRound = MAX_TOOL_CALL_ROUNDS + 1
  /\ lastRequest.round = MAX_TOOL_CALL_ROUNDS

\* The join of a round: the coordinating task leaves the wait on Promise.all.
JoinStep == pc = "exec" /\ pc' # "exec"

\* While the save of the assistant message is awaited the turn does
\* nothing; when it settles, end is appended to the events as they were,
\* the stream is closed, and the table has the trimmed accumulated text as a
\* new assistant record or, when the save failed, is as it was.
SaveStepEndsTurn ==
  pc = "save"
    => /\ sessionId # NoSession
       /\ lastRequest' = lastRequest /\ nRequests' = nRequests
       /\ invocations' = invocations
       /\ currentMessages' = currentMessages /\ currentRound' = currentRound
       /\ allAssistantContent' = allAssistantContent
       /\ \/ pc' = "save" /\ events' = events /\ ~closed'
          \/ /\ pc' = "done" /\ closed'
             /\ events' = Append(events, EndEvent)
             /\ store' \in {store,
                            Append(store,
                                   [id |-> Len(store) + 1, sessionId |-> sessionId,
                                    role |-> "assistant",
                                    content |-> Trim(allAssistantContent),
                                    toolName |-> "", toolResult |-> ""])}

\* C5: when the join finds that every invocation failed, the turn ends
\* there: no followup is composed, no request is issued, and end is the next
\* event after the round's events (the last of which is an error event when
\* an invocation ran), appended at the join when there is nothing to save,
\* else when the save of the trimmed accumulated text (awaited when there is
\* a session and the text is not blank) has settled; the stream is closed
\* with it.
C5_AllFailedEndsTurn ==
  /\ [][ (JoinStep /\ IndicesIn("ok") = {})
          => /\ IndicesIn("failed") # {} => events[Len(events)].type = "error"
             /\ currentMessages' = currentMessages
             /\ currentRound' = currentRound
             /\ nRequests' = nRequests /\ lastRequest' = lastRequest
             /\ store' = store
             /\ IF sessionId # NoSession /\ Trim(allAssistantContent) # <<>>
                THEN pc' = "save" /\ events' = events /\ ~closed'
                ELSE /\ events' = Append(events, EndEvent)
                     /\ closed' /\ pc' = "done" ]_vars
  /\ [][SaveStepEndsTurn]_vars

\* C5 witness: a turn that ended on a round in which both invocations
\* failed, after text was streamed and saved.
C5_Witness ==
  /\ closed
  /\ IndicesIn("failed") = Indices
  /\ Len(events) >= 3
  /\ events[Len(events)].type = "end"
  /\ events[Len(events) - 1].type = "error"
  /\ allAssistantContent # <<>>
  /\ store # <<>>
  /\ store[Len(store)].role = "assistant"
  /\ store[Len(store)].content = Trim(allAssistantContent)


\* The entry the composer writes for a result, filtered or not.
EntryContents(toolName, result) ==
  { "Tool " \o toolName \o " executed with result: " \o r \o "\n\n" :
      r \in {result, ExaFilterResult(result).value} }

\* C6: while a round's invocations run, every failed one has emitted exactly
\* one error event and every successful one exactly one tool_result; the
\* join yields one ToolExecution per successful invocation, in call order,
\* and none for a failed one; the followup composed from them adds one
\* system message and one entry per successful invocation.
C6_PartialFailure ==
  /\ [](pc = "exec"
         => /\ Cardinality(RoundEventsOfType("error")) = Cardinality(IndicesIn("failed"))
            /\ Cardinality(RoundEventsOfType("tool_result")) = Cardinality(IndicesIn("ok")))
  /\ [][ JoinStep
           => LET okIdx == SortedSeq(IndicesIn("ok"))
                  base == Len(currentMessages) + 1
              IN /\ Len(toolExecutions') = Len(okIdx)
                 /\ \A k \in DOMAIN okIdx :
                      /\ toolExecutions'[k].toolName = toolCalls[okIdx[k]].name
                      /\ toolExecutions'[k].result = invocations[okIdx[k]].result
                      /\ toolExecutions'[k].messageId = invocations[okIdx[k]].savedMessageId
                 /\ currentRound' # currentRound
                      => /\ Len(currentMessages') = base + Len(okIdx)
                         /\ currentMessages'[1].role = "system"
                         /\ \A k \in DOMAIN okIdx :
                              /\ currentMessages'[base + k].role = "assistant"
                              /\ currentMessages'[base + k].content
                                   \in EntryContents(toolCalls[okIdx[k]].name,
                                                     invocations[okIdx[k]].result) ]_vars

\* C6 witness: index 1 failed first, index 0 succeeded afterwards; the join
\* yielded one ToolExecution and the next round is about to be requested.
C6_Witness ==
  /\ pc = "request"
  /\ invocations[0].st = "ok"
  /\ invocations[1].st = "failed"
  /\ Len(toolExecutions) = 1
  /\ Cardinality(RoundEventsOfType("error")) = 1
  /\ \E e \in RoundEventsOfType("error"), r \in RoundEventsOfType("tool_result") : e < r

\* The slots that hold a non-empty name and a parseable arguments text.
Eligible ==
  {i \in Indices : /\ toolCalls[i].present
                   /\ toolCalls[i].name # ""
                   /\ JSONParse(toolCalls[i].arguments).ok}

\* C7: once the invocations of a round have settled, the round has emitted
\* as many tool_call events as there are eligible slots.
C7_ToolCallPerEligibleFragment ==
  (pc = "exec" /\ \A i \in Indices : Settled(invocations[i]))
    => Cardinality(RoundEventsOfType("tool_call")) = Cardinality(Eligible)

\* The name (arguments) parts received for an index, concatenated in
\* arrival order.
RECURSIVE ReceivedName(_, _)
ReceivedName(updates, index) ==
  IF updates = <<>> THEN ""
  ELSE (IF Head(updates).index = index THEN Head(updates).name ELSE "")
       \o ReceivedName(Tail(updates), index)

RECURSIVE ReceivedArguments(_, _)
ReceivedArguments(updates, index) ==
  IF updates = <<>> THEN ""
  ELSE (IF Head(updates).index = index THEN Head(updates).arguments ELSE "")
       \o ReceivedArguments(Tail(updates), index)

\* C8: the name and the arguments text of every slot are the concatenation,
\* in arrival order, of the parts received for its index; the invocation and
\* its tool_call event carry that name and the value parsed from that text.
C8_MergedIsConcatenation ==
  /\ \A i \in Indices :
       /\ toolCalls[i].name = ReceivedName(received, i)
       /\ toolCalls[i].arguments = ReceivedArguments(received, i)
       /\ invocations[i].st # "idle"
            => invocations[i].toolName = ReceivedName(received, i)
  /\ \A k \in RoundEventsOfType("tool_call") :
       /\ events[k].name = ReceivedName(received, events[k].index)
       /\ events[k].args = JSONParse(ReceivedArguments(received, events[k].index)).value
       /\ JSONParse(ReceivedArguments(received, events[k].index)).ok

\* C8 witness: the arguments of index 0 arrive in two parts with a delta of
\* index 1 in between, and the call of index 0 was issued with the merged
\* text.
C8_Witness ==
  /\ pc = "exec"
  /\ Len(received) = 3
  /\ received[1].index = 0 /\ received[1].arguments = ArgsHead
  /\ received[2].index = 1
  /\ received[3].index = 0 /\ received[3].arguments = ArgsTail
  /\ toolCalls[0].arguments = FullArgs
  /\ \E k \in RoundEventsOfType("tool_call") :
       events[k].index = 0 /\ events[k].args = [query |-> "x"]

\* The executions whose filterResult fails on their result: the list is
\* composed on the branch with followup policies, the tool has the filter of
\* ExaSearchTool and the result is no JSON text.
FilterFails(executions) ==
  {k \in DOMAIN executions :
     /\ \E j \in DOMAIN executions : executions[j].tool.followup.enabled
     /\ executions[k].tool.followup.filterResult = "exa"
     /\ executions[k].result = "plain text"}

\* The entry of an execution that holds the given text as result.
EntryWith(execution, text) ==
  [role |-> "assistant",
   content |-> "Tool " \o execution.toolName \o " executed with result: "
               \o text \o "\n\n"]

C10_PersistenceFailureSwallowed ==
  \A e \in EventsOfType("error") :
    events[e].message # "Tool execution failed: " \o DbErrorMessage

-----------------------------------------------------------------------------
(* Failure of the model stream *)

\* A step in which the model call rejects (the only operation of Request that
\* can fail) or the stream iterator rejects.
ModelFailureStep ==
  \/ Request /\ faultsLeft' < faultsLeft
  \/ StreamFails

\* C11: a failure of the model stream, at the request or while a chunk is
\* awaited, appends exactly one error event and then end to the events
\* emitted so far (text chunks included), closes the stream with no tool
\* invocation started; once the stream is closed the turn does nothing more
\* (no event, no request, no invocation, no change of its messages or its
\* round; only the message table can still change, by a deletion of the
\* session); an error event of the model stream is always followed directly
\* by the last event, end.
C11_ModelFailureIsTerminal ==
  /\ [][ModelFailureStep =>
         /\ events' = events \o << ErrorEvent(StreamErrorMessage), EndEvent >>
         /\ closed' /\ pc' = "done"
         /\ \A i \in Indices : invocations'[i].st = "idle"]_vars
  /\ [][closed => /\ closed' /\ pc' = pc
                  /\ events' = events
                  /\ lastRequest' = lastRequest /\ nRequests' = nRequests
                  /\ invocations' = invocations /\ toolCalls' = toolCalls
                  /\ toolExecutions' = toolExecutions
                  /\ currentMessages' = currentMessages
                  /\ currentRound' = currentRound]_vars
  /\ [](\A k \in EventsOfType("error") :
          events[k].message = StreamErrorMessage
            => /\ closed
               /\ k + 1 = Len(events)
               /\ events[k + 1] = EndEvent)

\* C11 witness: the stream failed after a text chunk of the second round; the
\* chunk is still in the sequence, followed by the error and end.
C11_Witness ==
  /\ closed
  /\ currentRound = 2
  /\ Len(events) >= 3
  /\ events[Len(events) - 2].type = "text_chunk"
  /\ events[Len(events) - 1] = ErrorEvent(StreamErrorMessage)
  /\ lastRequest.round = 2

-----------------------------------------------------------------------------
(* The framing of the rounds *)

\* The system content a request with tools carries in the last round and in
\* a round with n rounds left, as the model reads them.
LastChanceContent ==
  BaseSystemContent \o ConcurrentToolsNote
  \o "\n\nIMPORTANT: This is your final opportunity to call tools (round "
  \o ToString(MAX_TOOL_CALL_ROUNDS) \o "/" \o ToString(MAX_TOOL_CALL_ROUNDS)
  \o "). Please make all necessary tool calls now, as you won't have another chance after this response."

RoundsLeftContent(n) ==
  BaseSystemContent \o ConcurrentToolsNote
  \o "\n\nNote: You have " \o ToString(n)
  \o " more rounds of tool calls available if needed."

\* C12: the system message of a request of round N that offers tools is the
\* final-opportunity framing exactly when N is the maximum, and announces
\* MAX - N remaining rounds when N is smaller; the two differ.
C12_FinalRoundFraming ==
  (lastRequest.round # 0 /\ lastRequest.params.tools # <<>>)
    => LET n == lastRequest.round
           system == lastRequest.params.messages[1]
       IN /\ system.role = "system"
          /\ n \in 1..MAX_TOOL_CALL_ROUNDS
          /\ (system.content = LastChanceContent) <=> (n = MAX_TOOL_CALL_ROUNDS)
          /\ n < MAX_TOOL_CALL_ROUNDS
               => system.content = RoundsLeftContent(MAX_TOOL_CALL_ROUNDS - n)
          /\ \A m \in 1..(MAX_TOOL_CALL_ROUNDS - 1) :
               RoundsLeftContent(MAX_TOOL_CALL_ROUNDS - m) # LastChanceContent

\* C12 witness: the request of the last round has been issued with tools.
C12_Witness ==
  /\ pc = "stream"
  /\ lastRequest.round = MAX_TOOL_CALL_ROUNDS
  /\ lastRequest.params.tools # <<>>
  /\ lastRequest.params.messages[1].content = LastChanceContent

-----------------------------------------------------------------------------
(* Order and correlation of the tool events *)

\* C13: within a round the tool_call events appear in the order of the
\* indices of their calls.
C13_ToolCallsInIndexOrder ==
  \A a, b \in RoundEventsOfType("tool_call") :
    a < b => events[a].index < events[b].index

\* C14: every tool_result event of a round comes after a tool_call event of
\* the same call, with the same id, name and record id, and no call has two
\* tool_call events or two tool_result events.
C14_ResultFollowsItsCall ==
  /\ \A r \in RoundEventsOfType("tool_result") :
       \E c \in RoundEventsOfType("tool_call") :
         /\ c < r
         /\ events[c].index = events[r].index
         /\ events[c].id = events[r].id
         /\ events[c].name = events[r].name
         /\ events[c].messageId = events[r].messageId
  /\ \A type \in {"tool_call", "tool_result"} :
       \A a, b \in RoundEventsOfType(type) :
         events[a].index = events[b].index => a = b

\* C14 witness: with a session, both calls of a round have their result, and
\* the result of index 1 came before the result of index 0.
C14_Witness ==
  /\ sessionId # NoSession
  /\ \E a, b \in RoundEventsOfType("tool_result") :
       /\ a < b
       /\ events[a].index = 1 /\ events[b].index = 0
       /\ events[a].messageId # 0 /\ events[b].messageId # 0

-----------------------------------------------------------------------------
(* The join of the concurrent invocations *)

\* The invocations whose promise is still pending.
Unsettled == {i \in Indices : invocations[i].st \in {"create", "execute", "update"}}

\* C15: invocations are pending only while the coordinating task waits for
\* the join; the task leaves the wait (to compose the followup, to request
\* the next round or to end the turn) only when every invocation has
\* settled, the messages change only then, and the join yields the
\* execution of every invocation that succeeded, whatever the others did.
C15_JoinWaitsForAll ==
  /\ [](Unsettled # {} => pc = "exec")
  /\ [][(pc = "exec" /\ pc' # "exec")
          => /\ Unsettled = {}
             /\ Len(toolExecutions') = Cardinality(IndicesIn("ok"))
             /\ \A i \in IndicesIn("ok") :
                  \E k \in DOMAIN toolExecutions' :
                    toolExecutions'[k] = ToolExecutionOf(i, toolCalls, invocations)]_vars
  /\ [][currentMessages' # currentMessages
          => (pc = "exec" /\ Unsettled = {})]_vars

\* C15 witness: the invocation of index 0 failed first, the one of index 1
\* succeeded after it, and the join yielded the execution of index 1.
C15_Witness ==
  /\ pc = "request"
  /\ invocations[0].st = "failed"
  /\ invocations[1].st = "ok"
  /\ Len(toolExecutions) = 1
  /\ \E e \in RoundEventsOfType("error"), r \in RoundEventsOfType("tool_result") :
       e < r /\ events[r].index = 1

-----------------------------------------------------------------------------
(* Followup composition *)

\* The system messages of the last model request.
RequestSystemMessages ==
  SelectSeq(lastRequest.params.messages, LAMBDA msg : msg.role = "system")

\* C16: the request issued for a round after a followup composition carries
\* as its one system message the system message the composer produced (the
\* overrides of the enabled policies, or the generic instruction).
C16_FollowupSystemMessageIsSent ==
  (lastRequest.round > 1 /\ lastRequest.round = currentRound)
    => /\ currentMessages[1].role = "system"
       /\ Len(RequestSystemMessages) = 1
       /\ RequestSystemMessages[1].content = currentMessages[1].content

\* The executions with an enabled followup policy, and the overrides they
\* provide, in execution order.
EnabledExecutions(executions) ==
  SelectSeq(executions, LAMBDA execution : execution.tool.followup.enabled)

ProvidedOverrides(executions) ==
  LET on == EnabledExecutions(executions)
  IN SelectSeq([k \in DOMAIN on |-> on[k].tool.followup.systemPrompt],
               LAMBDA prompt : prompt # "")

\* The composer has returned its list and the request of the next round, if
\* there is one, has not been issued yet.
Composed == pc \in {"request", "done"} /\ EventsOfType("error") = {}

\* C17: a list the composer returns starts with a system message that holds
\* the overrides of the enabled policies joined by blank lines, in execution
\* order and skipping the enabled policies without override, or the generic
\* instruction when there is no override or no enabled policy; the rest of
\* the list is a history followed by one entry per execution, so the
\* composer adds that one system message and no other.
C17_ComposedSystemMessage ==
  Composed
    => /\ currentMessages[1].role = "system"
       /\ currentMessages[1].content =
            (IF ProvidedOverrides(toolExecutions) = <<>>
             THEN "You are a helpful assistant. Based on the tool results in the conversation, provide a comprehensive and helpful response to the user's question. Analyze and summarize the information clearly."
             ELSE JoinStrings(ProvidedOverrides(toolExecutions), "\n\n"))
       /\ \E h \in ComposerHistories :
            /\ Len(currentMessages) = 1 + Len(h) + Len(toolExecutions)
            /\ SubSeq(currentMessages, 2, 1 + Len(h)) = h

\* C17 witness: two executions with enabled policies, the first without an
\* override and the second with one: the system message is that override.
C17_Witness ==
  /\ Composed
  /\ Len(toolExecutions) = 2
  /\ toolExecutions[1].toolName = "lookup"
  /\ toolExecutions[1].tool.followup.enabled
  /\ toolExecutions[1].tool.followup.systemPrompt = ""
  /\ toolExecutions[2].tool = ExaSearchTool
  /\ currentMessages[1].content = ExaSystemPrompt

\* What the entry of an execution holds: the result through the tool's own
\* filterResult when some execution has an enabled policy and the tool has
\* a filterResult, else the result as it is.
EntryResult(executions, execution) ==
  IF EnabledExecutions(executions) # <<>>
     /\ execution.tool.followup.filterResult # "none"
  THEN ApplyFilterResult(execution.tool, execution.result).value
  ELSE execution.result

\* C18: a list the composer returns is the system message, the history, and
\* then exactly one assistant entry per execution in execution order, each
\* naming its tool and holding the result: filtered by the tool's own
\* filterResult when some execution has an enabled policy, unfiltered when
\* none has, even for tools that define a filterResult.
C18_OneEntryPerExecution ==
  Composed
    => LET n == Len(toolExecutions)
           base == Len(currentMessages) - n
       IN /\ \E h \in ComposerHistories :
               base = 1 + Len(h) /\ SubSeq(currentMessages, 2, base) = h
          /\ \A k \in 1..n :
               LET entry == currentMessages[base + k]
                   text == "Tool " \o toolExecutions[k].toolName
                           \o " executed with result: "
                           \o EntryResult(toolExecutions, toolExecutions[k])
               IN /\ entry.role = "assistant"
                  /\ entry.content \in {text, text \o "\n\n"}

\* C18 witness: no execution has an enabled policy and the tool of the second
\* execution defines a filterResult that would change its result: the entry
\* holds the result unfiltered.
C18_Witness ==
  /\ Composed
  /\ Len(toolExecutions) = 2
  /\ EnabledExecutions(toolExecutions) = <<>>
  /\ toolExecutions[2].toolName = "archive"
  /\ toolExecutions[2].result = ExaRawResult
  /\ currentMessages[Len(currentMessages)].content
       = "Tool archive executed with result: " \o ExaRawResult

-----------------------------------------------------------------------------
(* Call ids *)

\* The indices for which some delta of this round carried a call id.
IndicesWithId == {received[k].index : k \in {j \in DOMAIN received : received[j].id # ""}}

\* C19: the tool_call and tool_result events of a call whose id the model
\* sent in some delta of its index carry that id, and the tool_call events
\* of two calls of one round carry different ids.
C19_EventIdIsModelId ==
  /\ \A e \in RoundEventsOfType("tool_call") \cup RoundEventsOfType("tool_result") :
       events[e].index \in IndicesWithId
         => events[e].id = CallId(events[e].index)
  /\ \A a, b \in RoundEventsOfType("tool_call") :
       a # b => events[a].id # events[b].id

-----------------------------------------------------------------------------
(* Tool-call records *)

\* The records of the table with the given id.
RecordsWithId(table, id) == {k \in DOMAIN table : table[k].id = id}

Pending(record) == record.role = "tool_call" /\ record.toolResult = ""

\* C20: with a session, the step that starts an executor is the one that
\* appends the pending tool_call record of its invocation and hands it the
\* id of that record; while the session is in the database the record of an
\* invocation is pending until its executor has succeeded and pending when
\* the invocation failed; the records of the invocations of a round are
\* distinct; a record changes only by the update of the invocation that
\* owns it, from pending to holding that invocation's result, hence at most
\* once; rows leave the table only with their session.
C20_RecordPerInvocation ==
  /\ [](sessionId # NoSession =>
         /\ \A i \in Indices :
              invocations[i].st \in {"execute", "update", "ok"}
                => /\ invocations[i].savedMessageId # 0
                   /\ sessionExists =>
                        \E k \in RecordsWithId(store, invocations[i].savedMessageId) :
                          /\ store[k].toolName = invocations[i].toolName
                          /\ Pending(store[k]) <=> invocations[i].st # "ok"
         /\ \A i \in Indices :
              (invocations[i].st = "failed" /\ invocations[i].savedMessageId # 0)
                => \A k \in RecordsWithId(store, invocations[i].savedMessageId) :
                     Pending(store[k])
         /\ \A i, j \in Indices :
              (i # j /\ invocations[i].savedMessageId # 0)
                => invocations[i].savedMessageId # invocations[j].savedMessageId)
  /\ [][\A i \in Indices :
          (sessionId # NoSession /\ invocations[i].st = "create"
             /\ invocations'[i].st \notin {"create", "failed"})
            => /\ Len(store') = Len(store) + 1
               /\ Pending(store'[Len(store')])
               /\ store'[Len(store')].toolName = toolCalls[i].name
               /\ invocations'[i].savedMessageId = store'[Len(store')].id]_vars
  /\ [][/\ Len(store') < Len(store) => (sessionExists /\ ~sessionExists' /\ store' = <<>>)
        /\ Len(store') >= Len(store) =>
             \A k \in DOMAIN store :
               store'[k] # store[k]
                 => /\ Pending(store[k])
                    /\ \E i \in Indices :
                         /\ invocations[i].st = "update"
                         /\ invocations'[i].st = "ok"
                         /\ invocations[i].savedMessageId = store[k].id
                         /\ store'[k].toolResult
                              = JSONStringifyString(invocations[i].result)]_vars

\* C20 witness: two invocations of a round with a session; the record of
\* index 0 holds its result while the record of index 1, whose executor
\* failed, is still pending.
C20_Witness ==
  /\ sessionId # NoSession
  /\ invocations[0].st = "ok"
  /\ invocations[1].st = "failed"
  /\ invocations[1].savedMessageId # 0
  /\ \E k \in RecordsWithId(store, invocations[0].savedMessageId) : ~Pending(store[k])
  /\ \E k \in RecordsWithId(store, invocations[1].savedMessageId) : Pending(store[k])

-----------------------------------------------------------------------------
(* The final assistant message *)

\* The records of a role in the message table.
RecordsOfRole(role) == {k \in DOMAIN store : store[k].role = role}

\* The turn ended in the catch of the whole turn (model stream or composer).
EndedByCatch ==
  \E e \in EventsOfType("error") :
    events[e].message \in {StreamErrorMessage, FilterErrorMessage}

\* C21: a finished turn with a session that did not end in the catch, in
\* which no operation failed, the session was not deleted and
\* non-whitespace text was streamed, has
\* exactly one assistant record, holding the trimmed text.
C21_AssistantSavedOnce ==
  (/\ closed
   /\ sessionId # NoSession
   /\ ~EndedByCatch
   /\ faultsLeft = MaxFaults
   /\ sessionExists
   /\ Trim(allAssistantContent) # <<>>)
    => /\ Cardinality(RecordsOfRole("assistant")) = 1
       /\ \A k \in RecordsOfRole("assistant") :
            store[k].content = Trim(allAssistantContent)

-----------------------------------------------------------------------------
(* Plain completion *)

\* The chunk closes the round with a finish reason other than tool_calls, or
\* with tool_calls while no assembled slot is eligible.
PlainFinish(chunk) ==
  /\ chunk.finish_reason # ""
  /\ \/ chunk.finish_reason # "tool_calls"
     \/ \A i \in Indices : toolCalls'[i].name = "" \/ toolCalls'[i].arguments = ""

\* The chunks that carry a finish reason.
FinishChunks == {chunk \in Chunks : chunk.finish_reason # ""}

\* The types of the events a step appends.
NewEventTypes == {events'[k].type : k \in (Len(events) + 1)..Len(events')}

\* C22: a chunk that closes the round with a finish reason other than
\* tool_calls, or with tool_calls and no eligible slot, starts no invocation,
\* emits no tool_call and no error event and issues no request, whatever
\* fragments the round accumulated; the turn then ends with end (at once,
\* or at the join of the empty set of invocations, in both cases after the
\* save of the text when there is one to await).
C22_PlainCompletion ==
  /\ [][(/\ pc = "stream" /\ pc' # "stream"
          /\ \E chunk \in FinishChunks : PlainFinish(chunk) /\ StreamChunk(chunk))
          => /\ \A i \in Indices : invocations'[i].st = "idle"
             /\ lastRequest' = lastRequest /\ nRequests' = nRequests
             /\ NewEventTypes \subseteq {"text_chunk", "end"}
             /\ pc' \in {"done", "exec", "save"}
             /\ pc' = "done" => (closed' /\ events'[Len(events')] = EndEvent)
             /\ pc' = "save" => ~closed']_vars
  /\ [][(JoinStep /\ \A i \in Indices : invocations[i].st = "idle")
          => /\ \/ events' = Append(events, EndEvent) /\ closed' /\ pc' = "done"
                \/ events' = events /\ ~closed' /\ pc' = "save"
             /\ invocations' = invocations
             /\ lastRequest' = lastRequest /\ nRequests' = nRequests
             /\ currentMessages' = currentMessages]_vars
  /\ [][pc = "save"
          => /\ invocations' = invocations
             /\ lastRequest' = lastRequest /\ nRequests' = nRequests
             /\ NewEventTypes \subseteq {"end"}
             /\ pc' \in {"save", "done"}
             /\ pc' = "done" => (closed' /\ events' = Append(events, EndEvent))]_vars

\* C22 witness: a turn that ended in its first round with no tool_call and no
\* error event although the round had assembled an eligible call (the
\* finish reason was not tool_calls).
C22_Witness ==
  /\ closed
  /\ lastRequest.round = 1
  /\ validToolCalls(toolCalls) # <<>>
  /\ EventsOfType("tool_call") = {}
  /\ EventsOfType("error") = {}
  /\ events[Len(events)] = EndEvent

-----------------------------------------------------------------------------
(* The round counter *)

\* C23: the round counter changes only by one, and only at the join of a
\* round in which every invocation has settled and at least one succeeded;
\* every other step, the ends of rounds by plain completion, by the failure
\* of every invocation or without a finish reason included, leaves it as
\* it is.
C23_RoundCounterSteps ==
  [][currentRound' # currentRound
       => /\ currentRound' = currentRound + 1
          /\ pc = "exec"
          /\ \A i \in Indices : invocations[i].st \in {"idle", "ok", "failed"}
          /\ IndicesIn("ok") # {}
          /\ Len(toolExecutions') > 0
          /\ pc' \in {"request", "done"}]_vars

\* C23 witness: the second round is about to be requested after a round with
\* one invocation that succeeded and one that failed.
C23_Witness ==
  /\ pc = "request"
  /\ currentRound = 2
  /\ IndicesIn("ok") # {}
  /\ IndicesIn("failed") # {}

-----------------------------------------------------------------------------
(* Slots that are dropped *)

\* The indices whose slot is missing or has an empty name or empty arguments.
Dropped ==
  {i \in Indices : \/ ~toolCalls[i].present
                   \/ toolCalls[i].name = ""
                   \/ toolCalls[i].arguments = ""}

\* C24: while the invocations of a round run and at their join, a slot with
\* an empty name or empty arguments (or an index never seen) has no
\* invocation, no record and no tool_call or tool_result event; every other
\* slot has its invocation; the error events of the round are those of the
\* invocations that failed; records are appended only by invocations of
\* slots that are not dropped.
C24_DroppedSilently ==
  /\ [](pc = "exec" =>
         /\ \A i \in Dropped :
              /\ invocations[i] = IdleInvocation
              /\ \A e \in RoundEventsOfType("tool_call")
                          \cup RoundEventsOfType("tool_result") :
                   events[e].index # i
         /\ \A i \in Indices \ Dropped : invocations[i].st # "idle"
         /\ Cardinality(RoundEventsOfType("error")) = Cardinality(IndicesIn("failed")))
  /\ [][(pc = "exec" /\ pc' = "exec" /\ Len(store') > Len(store))
          => \E i \in Indices \ Dropped :
               /\ invocations[i].st = "create"
               /\ invocations'[i].savedMessageId = store'[Len(store')].id]_vars

\* C24 witness: the slot of index 0 has a name and no arguments and is
\* dropped; the call of index 1 has run and succeeded.
C24_Witness ==
  /\ pc = "exec"
  /\ toolCalls[0].present
  /\ toolCalls[0].name # ""
  /\ toolCalls[0].arguments = ""
  /\ invocations[1].st = "ok"
  /\ Cardinality(RoundEventsOfType("tool_call")) = 1

-----------------------------------------------------------------------------
(* Arguments that do not parse *)

\* The indices whose slot has a name and an arguments text that is no JSON.
Unparseable ==
  {i \in Indices : /\ toolCalls[i].present
                   /\ toolCalls[i].name # ""
                   /\ toolCalls[i].arguments \notin {"", FullArgs}}

ParseErrors ==
  {e \in RoundEventsOfType("error") :
     \E i \in Unparseable, failure \in JSONParseErrors :
       /\ failure[1] = toolCalls[i].arguments
       /\ events[e].message = "Invalid tool arguments: SyntaxError: " \o failure[2]}

\* C25: while the invocations of a round run and at their join, a slot with
\* a name and arguments that do not parse has failed without a record, has
\* no tool_call and no tool_result event, and the round has one parse error
\* event per such slot; the slots that parse have their invocation; the
\* round yields at most one execution per slot that parses.
C25_ParseErrorSkipsSlot ==
  /\ pc = "exec" =>
       /\ \A i \in Unparseable :
            /\ invocations[i].st = "failed"
            /\ invocations[i].savedMessageId = 0
            /\ \A e \in RoundEventsOfType("tool_call")
                        \cup RoundEventsOfType("tool_result") :
                 events[e].index # i
       /\ Cardinality(ParseErrors) = Cardinality(Unparseable)
       /\ \A i \in Indices \ (Dropped \cup Unparseable) : invocations[i].st # "idle"
  /\ pc \in {"exec", "request"} =>
       Len(toolExecutions) <= Cardinality(Indices \ (Dropped \cup Unparseable))

\* C25 witness: the arguments of index 0, left open, did not parse and were
\* reported as an unterminated string; the call of index 1 succeeded and
\* carried the turn into the second round.
C25_Witness ==
  /\ pc = "request"
  /\ currentRound = 2
  /\ 0 \in Unparseable
  /\ toolCalls[0].arguments = ArgsHead
  /\ \E e \in ParseErrors :
       events[e].message =
         "Invalid tool arguments: SyntaxError: Unterminated string in JSON at position 5"
  /\ invocations[0].st = "failed"
  /\ invocations[1].st = "ok"
  /\ Len(toolExecutions) = 1
  /\ Cardinality(ParseErrors) = 1

-----------------------------------------------------------------------------
(* Names that are not registered *)

RegisteredNames == {registry[k].name : k \in DOMAIN registry}

\* The indices whose slot parses and names a tool that is not registered.
Unregistered ==
  {i \in Indices \ (Dropped \cup Unparseable) : toolCalls[i].name \notin RegisteredNames}

\* The error events of the round that report a failed lookup.
LookupErrors ==
  {e \in RoundEventsOfType("error") :
     \E i \in Unregistered :
       events[e].message =
         "Tool " \o toolCalls[i].name \o " not found. Available tools: "
         \o JoinStrings([k \in DOMAIN registry |-> registry[k].name], ", ")}

\* C26: a call that names a tool that is not registered never has its
\* executor started and has no tool_result event; the round has one lookup
\* error event per such call that reached the lookup; no execution of the
\* round is of such a name; the calls of registered tools have their
\* invocation.
C26_UnknownToolSkipped ==
  /\ pc = "exec" =>
       /\ \A i \in Unregistered :
            /\ invocations[i].st \in {"create", "failed"}
            /\ invocations[i].result = ""
            /\ \A e \in RoundEventsOfType("tool_result") : events[e].index # i
       /\ Cardinality(LookupErrors) =
            Cardinality({i \in Unregistered :
                           /\ invocations[i].st = "failed"
                           /\ sessionId # NoSession => invocations[i].savedMessageId # 0})
       /\ \A i \in Indices \ (Dropped \cup Unparseable \cup Unregistered) :
            invocations[i].st # "idle"
  /\ \A k \in DOMAIN toolExecutions : toolExecutions[k].toolName \in RegisteredNames

\* C26 witness: the call of index 0 named a tool that is not registered and
\* failed at the lookup, the call of index 1 succeeded and the second round
\* is about to be requested.
C26_Witness ==
  /\ pc = "request"
  /\ currentRound = 2
  /\ 0 \in Unregistered
  /\ invocations[0].st = "failed"
  /\ Cardinality(LookupErrors) = 1
  /\ invocations[1].st = "ok"
  /\ Len(toolExecutions) = 1

-----------------------------------------------------------------------------
(* The accumulated assistant text *)

\* The contents of the text_chunk events among the first n events, joined in
\* the order of emission.
RECURSIVE EmittedText(_)
EmittedText(n) ==
  IF n = 0 THEN <<>>
  ELSE EmittedText(n - 1)
         \o (IF events[n].type = "text_chunk" THEN events[n].content ELSE <<>>)

\* C27: the accumulated assistant text is always the concatenation of the
\* contents of the text_chunk events emitted so far, none of them empty; a
\* step emits at most one text_chunk, exactly when it appends a text delta,
\* and after all events emitted earlier; an assistant record of the turn
\* holds the accumulated text with the whitespace at both ends removed.
C27_TextAccumulation ==
  /\ [](/\ allAssistantContent = EmittedText(Len(events))
        /\ \A e \in EventsOfType("text_chunk") : events[e].content # <<>>
        /\ \A k \in RecordsOfRole("assistant") :
             /\ store[k].content # <<>>
             /\ ~IsWhitespace(store[k].content[1])
             /\ ~IsWhitespace(store[k].content[Len(store[k].content)])
             /\ \E lead, trail \in 0..Len(allAssistantContent) :
                  /\ store[k].content =
                       SubSeq(allAssistantContent, lead + 1,
                              Len(allAssistantContent) - trail)
                  /\ \A j \in 1..lead : IsWhitespace(allAssistantContent[j])
                  /\ \A j \in 1..trail :
                       IsWhitespace(allAssistantContent[Len(allAssistantContent) + 1 - j]))
  /\ [][LET new == {e \in (Len(events) + 1)..Len(events') :
                      events'[e].type = "text_chunk"}
        IN /\ Cardinality(new) <= 1
           /\ allAssistantContent' # allAssistantContent <=> new # {}
           /\ \A e \in new :
                allAssistantContent' = allAssistantContent \o events'[e].content]_vars

\* C27 witness: text was streamed in two rounds, the turn is over and the
\* assistant record holds the text without its trailing blank.
C27_Witness ==
  /\ closed
  /\ currentRound = 2
  /\ Cardinality(EventsOfType("text_chunk")) = 2
  /\ allAssistantContent = << "a", " " >>
  /\ \E k \in RecordsOfRole("assistant") : store[k].content = << "a" >>

-----------------------------------------------------------------------------
(* Requests of a turn whose streams all finish *)

\* C28: in a turn whose model streams all end with a finish reason, at most
\* MAX_TOOL_CALL_ROUNDS requests are issued, one per round, and each of them
\* carries the registered tools.
C28_RequestsBounded ==
  /\ nRequests <= MAX_TOOL_CALL_ROUNDS
  /\ nRequests <= currentRound
  /\ lastRequest # NoRequest =>
       /\ lastRequest.round = nRequests
       /\ lastRequest.params.tools = [k \in DOMAIN registry |-> registry[k].name]
       /\ registry # <<>> => lastRequest.params.tools # <<>>

\* C28 witness: the third request of the turn has been issued, with the
\* tools, after two rounds of tool calls.
C28_Witness ==
  /\ nRequests = 3
  /\ lastRequest.round = 3
  /\ lastRequest.params.tools # <<>>
  /\ pc = "stream"

-----------------------------------------------------------------------------
(* The order of the executions *)

\* The position in the events of the tool_result event of a call.
ResultPosition(i) ==
  CHOOSE e \in RoundEventsOfType("tool_result") : events[e].index = i

\* C29: at the join the executions are those of the successful invocations
\* by increasing call index, whatever the order in which they settled, and
\* the context of the next round is composed from the slots and the results
\* taken in that order; record ids, which depend on the interleaving, do not
\* enter it.
C29_ExecutionsInIndexOrder ==
  [][JoinStep =>
       LET ok == {i \in Indices : invocations[i].st = "ok"}
           nth(k) == CHOOSE i \in ok : Cardinality({j \in ok : j < i}) = k - 1
           byIndex == [k \in 1..Cardinality(ok) |->
                         [toolName |-> toolCalls[nth(k)].name,
                          toolArgs |-> [query |-> "x"],
                          result |-> invocations[nth(k)].result,
                          tool |-> toolMap[toolCalls[nth(k)].name],
                          messageId |-> 0]]
       IN /\ Len(toolExecutions') = Cardinality(ok)
          /\ \A k \in 1..Cardinality(ok) :
               toolExecutions'[k] =
                 [byIndex[k] EXCEPT !.messageId = invocations[nth(k)].savedMessageId]
          /\ currentRound' = currentRound + 1 =>
               currentMessages' =
                 generateFollowupMessages(byIndex, currentMessages).messages]_vars

\* C29 witness: with a session, the call of index 1 had its record created
\* first and delivered its result first; both calls succeeded, the
\* execution of index 0 is the first handed to the composer and the next
\* round is about to be requested.
C29_Witness ==
  /\ pc = "request"
  /\ currentRound = 2
  /\ Len(toolExecutions) = 2
  /\ ResultPosition(1) < ResultPosition(0)
  /\ toolExecutions[1].messageId = invocations[0].savedMessageId
  /\ toolExecutions[1].messageId > toolExecutions[2].messageId
  /\ toolExecutions[2].messageId > 0
  /\ Len(currentMessages) = 6

-----------------------------------------------------------------------------
(* A turn without a session *)

\* C30: in a turn without a session id the message table is never written
\* and no operation on it is issued: it stays empty, no step changes it, no
\* invocation waits for a create or an update or holds a record id, and no
\* error event reports a rejected operation.
C30_NoSessionNoStore ==
  /\ [](sessionId = NoSession =>
          /\ store = <<>>
          /\ \A i \in Indices :
               /\ invocations[i].savedMessageId = 0
               /\ invocations[i].st \notin {"create", "update"}
          /\ \A e \in EventsOfType("error") :
               events[e].message \notin
                 {"Tool execution failed: database unavailable",
                  "Tool execution failed: FOREIGN KEY constraint failed",
                  "Tool execution failed: Record to update not found."}
          /\ \A k \in DOMAIN toolExecutions : toolExecutions[k].messageId = 0)
  /\ [][sessionId = NoSession => store' = store]_vars

\* C30 witness: a turn without a session ended after a round in which a
\* tool ran and delivered its result and after text that is not blank was
\* streamed, the last message of the request being the user's.
C30_Witness ==
  /\ sessionId = NoSession
  /\ closed
  /\ currentRound = 2
  /\ EventsOfType("tool_result") # {}
  /\ Trim(allAssistantContent) # <<>>
  /\ ~EndedByCatch
  /\ store = <<>>


====
